---- MODULE Spec2Model ----
(***************************************************************************)
(* protofixer (src/lib.rs): canonical ordering of the top-level fields of  *)
(* a serialized protobuf message.                                          *)
(*                                                                         *)
(* The three public operations are modelled as calls that run the scan     *)
(* loop of parse_message one iteration per step and then return.           *)
(*                                                                         *)
(* Numbers.  The code computes in u128 (varint values, field ids) and in   *)
(* usize (lengths, offsets; 64 bits on the host).  These widths are kept   *)
(* exactly: a wide unsigned integer is a sequence of base-128 digits,      *)
(* most significant first, without leading zeros (<<>> is 0).  One digit   *)
(* is one 7-bit group of a varint.  Values the code can only hold below    *)
(* the buffer length (cursor, varint byte counts) are plain naturals.      *)
(***************************************************************************)
EXTENDS Integers, Sequences, FiniteSets, TLC

\* ------------------------------------------------------------------ bounds

\* Most fragments (see Fragments) a caller's buffer is built from.
MaxFrags == 3

\* Most times a sort's output is handed to a further call.
MaxFeeds == 1

\* ------------------------------------------------------- program constants

\* usize::MAX is 2^UsizeBits - 1 on the 64-bit host.
UsizeBits == 64

\* Width of the varint accumulator and of Chunk.id.
U128Bits == 128

\* ------------------------------------------------------ wide unsigned ints

RECURSIVE Norm(_)
Norm(a) ==
    IF a # <<>> /\ Head(a) = 0 THEN Norm(Tail(a)) ELSE a

RECURSIVE Big(_)
Big(n) ==
    IF n = 0 THEN <<>> ELSE Append(Big(n \div 128), n % 128)

\* The value of a wide integer that fits four digits.
IsSmall(a) == Len(a) <= 4

RECURSIVE Small(_)
Small(a) ==
    IF a = <<>> THEN 0 ELSE 128 * Small(SubSeq(a, 1, Len(a) - 1)) + a[Len(a)]

\* a mod 2^bits
WrapBits(a, bits) ==
    LET full == bits \div 7
        part == bits % 7
    IN  IF Len(a) <= full THEN a
        ELSE LET keep == SubSeq(a, Len(a) - full, Len(a))
             IN  Norm(<<Head(keep) % (2 ^ part)>> \o Tail(keep))

\* a < 2^bits
Fits(a, bits) ==
    \/ Len(a) <= bits \div 7
    \/ Len(a) = (bits \div 7) + 1 /\ Head(a) < 2 ^ (bits % 7)

RECURSIVE AddCarry(_, _, _)
AddCarry(a, b, c) ==
    IF a = <<>> /\ b = <<>>
    THEN IF c = 0 THEN <<>> ELSE <<c>>
    ELSE LET x == IF a = <<>> THEN 0 ELSE a[Len(a)]
             y == IF b = <<>> THEN 0 ELSE b[Len(b)]
             s == x + y + c
             ra == IF a = <<>> THEN a ELSE SubSeq(a, 1, Len(a) - 1)
             rb == IF b = <<>> THEN b ELSE SubSeq(b, 1, Len(b) - 1)
         IN  Append(AddCarry(ra, rb, s \div 128), s % 128)

\* The mathematical sum.
BigAdd(a, b) == Norm(AddCarry(a, b, 0))

RECURSIVE LexLess(_, _)
LexLess(a, b) ==
    IF a = <<>> THEN FALSE
    ELSE IF Head(a) # Head(b) THEN Head(a) < Head(b)
    ELSE LexLess(Tail(a), Tail(b))

\* a < b
BigLess(a, b) ==
    IF Len(a) # Len(b) THEN Len(a) < Len(b) ELSE LexLess(a, b)

\* key >> 3
RECURSIVE Shr3Digits(_, _)
Shr3Digits(a, carry) ==
    IF a = <<>> THEN <<>>
    ELSE <<carry * 16 + (Head(a) \div 8)>> \o Shr3Digits(Tail(a), Head(a) % 8)

Shr3(a) == Norm(Shr3Digits(a, 0))

\* key & 0x7
Low3(a) == IF a = <<>> THEN 0 ELSE a[Len(a)] % 8

\* An addition of two usize values: debug builds abort on overflow, release
\* builds wrap modulo 2^64.
usize_add(a, b, build) ==
    LET s == BigAdd(a, b)
    IN  IF Fits(s, UsizeBits) THEN [overflow |-> FALSE, val |-> s]
        ELSE IF build = "debug" THEN [overflow |-> TRUE, val |-> <<>>]
        ELSE [overflow |-> FALSE, val |-> WrapBits(s, UsizeBits)]

\* ------------------------------------------------------------ read_varint

\* The loop of read_varint: the groups are accumulated most significant
\* first, data = (data << 7) | (byte & 0x7F) in u128, and the loop also ends
\* when the slice is used up.
RECURSIVE varint_loop(_, _, _)
varint_loop(bytes, offset, data) ==
    IF offset < Len(bytes)
    THEN LET byte == bytes[offset + 1]
             next == WrapBits(Norm(Append(data, byte % 128)), U128Bits)
         IN  IF byte \div 128 = 0
             THEN [ok |-> TRUE, data |-> next, length |-> offset + 1]
             ELSE varint_loop(bytes, offset + 1, next)
    ELSE [ok |-> TRUE, data |-> data, length |-> offset]

read_varint(bytes) ==
    IF Len(bytes) = 0
    THEN [ok |-> FALSE, data |-> <<>>, length |-> 0]
    ELSE varint_loop(bytes, 0, <<>>)

\* ----------------------------------------------------------- parse_message

NoChunk == [id |-> <<>>, offset |-> 0, length |-> <<>>]

FieldErr == [kind |-> "err", chunk |-> NoChunk, offset |-> 0]

FieldPanic == [kind |-> "panic", chunk |-> NoChunk, offset |-> 0]

\* The payload length chosen by the wire type (the match of parse_message).
field_length(wire_type, rest, build) ==
    CASE wire_type = 0 ->
            LET v == read_varint(rest)
            IN  IF v.ok THEN [kind |-> "ok", val |-> Big(v.length)]
                ELSE [kind |-> "err", val |-> <<>>]
      [] wire_type = 1 -> [kind |-> "ok", val |-> Big(8)]
      [] wire_type = 2 ->
            LET v == read_varint(rest)
            IN  IF ~v.ok THEN [kind |-> "err", val |-> <<>>]
                ELSE IF ~Fits(v.data, UsizeBits) THEN [kind |-> "err", val |-> <<>>]
                ELSE LET s == usize_add(v.data, Big(v.length), build)
                     IN  IF s.overflow THEN [kind |-> "panic", val |-> <<>>]
                         ELSE [kind |-> "ok", val |-> s.val]
      [] wire_type \in {3, 4} -> [kind |-> "err", val |-> <<>>]
      [] wire_type = 5 -> [kind |-> "ok", val |-> Big(4)]
      [] OTHER -> [kind |-> "err", val |-> <<>>]

\* One iteration of the scan loop, started with the cursor at offset
\* (offset < Len(msg)): the chunk it pushes and the cursor it leaves, or the
\* ParseError it returns, or the abort (overflow check, slice out of range).
scan_field(msg, offset, build) ==
    LET bytes == SubSeq(msg, offset + 1, Len(msg))
        k == read_varint(bytes)
        field_id == Shr3(k.data)
        wire_type == Low3(k.data)
        fl == field_length(wire_type, SubSeq(bytes, k.length + 1, Len(bytes)), build)
        total == usize_add(Big(k.length), fl.val, build)
        after == usize_add(Big(offset), total.val, build)
    IN  IF ~k.ok \/ fl.kind = "err" THEN FieldErr
        ELSE IF fl.kind = "panic" \/ total.overflow \/ after.overflow THEN FieldPanic
        ELSE IF ~IsSmall(after.val) \/ Small(after.val) > Len(msg) THEN FieldPanic
        ELSE [kind |-> "chunk",
              chunk |-> [id |-> field_id, offset |-> offset, length |-> total.val],
              offset |-> Small(after.val)]

\* ---------------------------------------------------------------- is_sorted

\* is_sorted_from with `cur <= prev` for `cur < prev`.
RECURSIVE is_sorted_from_strict(_, _, _)
is_sorted_from_strict(chunks, i, prev) ==
    IF i > Len(chunks) THEN TRUE
    ELSE IF BigLess(chunks[i].id, prev) \/ chunks[i].id = prev THEN FALSE
    ELSE is_sorted_from_strict(chunks, i + 1, chunks[i].id)

\* is_sorted_from without `prev = cur`.
RECURSIVE is_sorted_from_stale(_, _, _)
is_sorted_from_stale(chunks, i, prev) ==
    IF i > Len(chunks) THEN TRUE
    ELSE IF BigLess(chunks[i].id, prev) THEN FALSE
    ELSE is_sorted_from_stale(chunks, i + 1, prev)

RECURSIVE is_sorted_from(_, _, _)
is_sorted_from(chunks, i, prev) ==
    IF i > Len(chunks) THEN TRUE
    ELSE IF BigLess(chunks[i].id, prev) THEN FALSE
    ELSE is_sorted_from(chunks, i + 1, chunks[i].id)

is_sorted(chunks) ==
    IF chunks = <<>> THEN TRUE ELSE is_sorted_from(chunks, 2, chunks[1].id)

\* ------------------------------------------------------------------ do_sort

\* chunks.sort_by_key(|ck| ck.id): the standard library's sort is stable; it
\* is modelled as the insertion of each chunk behind the chunks that do not
\* compare greater.
\* insert_by_key as an unstable sort would do it: the chunk goes in front of
\* the chunks with the same id.
RECURSIVE insert_by_key_unstable(_, _)
insert_by_key_unstable(sorted, ck) ==
    IF sorted = <<>> THEN <<ck>>
    ELSE IF ~BigLess(sorted[Len(sorted)].id, ck.id)
         THEN Append(insert_by_key_unstable(SubSeq(sorted, 1, Len(sorted) - 1), ck),
                     sorted[Len(sorted)])
         ELSE Append(sorted, ck)

RECURSIVE insert_by_key(_, _)
insert_by_key(sorted, ck) ==
    IF sorted = <<>> THEN <<ck>>
    ELSE IF BigLess(ck.id, sorted[Len(sorted)].id)
         THEN Append(insert_by_key(SubSeq(sorted, 1, Len(sorted) - 1), ck),
                     sorted[Len(sorted)])
         ELSE Append(sorted, ck)

RECURSIVE sort_by_key(_)
sort_by_key(chunks) ==
    IF chunks = <<>> THEN <<>>
    ELSE insert_by_key(sort_by_key(SubSeq(chunks, 1, Len(chunks) - 1)),
                       chunks[Len(chunks)])

\* The copy loop of do_sort over the sorted chunks: msg[start..end] aborts
\* when end < start or end > msg.len(), and offset + length is a usize sum.
RECURSIVE gather(_, _, _, _)
gather(chunks, msg, build, sorted) ==
    IF chunks = <<>> THEN [panic |-> FALSE, bytes |-> sorted]
    ELSE LET ck == Head(chunks)
             start == ck.offset
             end == usize_add(Big(ck.offset), ck.length, build)
         IN  IF end.overflow THEN [panic |-> TRUE, bytes |-> <<>>]
             ELSE IF ~IsSmall(end.val) THEN [panic |-> TRUE, bytes |-> <<>>]
             ELSE IF Small(end.val) < start \/ Small(end.val) > Len(msg)
                  THEN [panic |-> TRUE, bytes |-> <<>>]
             ELSE gather(Tail(chunks), msg, build,
                         sorted \o SubSeq(msg, start + 1, Small(end.val)))

do_sort(chunks, msg, build) ==
    LET ordered == sort_by_key(chunks)
        out == gather(ordered, msg, build, <<>>)
    IN  [panic |-> out.panic, bytes |-> out.bytes, chunks |-> ordered]

\* ------------------------------------------------------------ the buffers

\* The pieces the caller's buffers are made of: whole field entries, and the
\* malformed pieces the operations have to survive.
Fragments ==
    { <<8, 10>>,                 \* field 1, varint 10
      <<8, 129>>,                \* field 1, varint with the continuation bit set
      <<26, 1, 42>>,             \* field 3, length-delimited, 1 byte
      <<13>>,                    \* field 1, 32-bit, payload missing
      <<11>>,                    \* field 1, group start
      <<10, 129, 255, 255, 255, 255, 255, 255, 255, 255, 117>>,
                                 \* field 1, length-delimited, N = 2^64 - 11
      <<10, 129, 255, 255, 255, 255, 255, 255, 255, 255, 116>>,
                                 \* field 1, length-delimited, N = 2^64 - 12
      <<10, 130, 128, 128, 128, 128, 128, 128, 128, 128, 0>> }
                                 \* field 1, length-delimited, N = 2^64

RECURSIVE Buffers(_)
Buffers(n) ==
    IF n = 0 THEN { <<>> }
    ELSE LET shorter == Buffers(n - 1)
         IN  shorter \cup { b \o f : b \in shorter, f \in Fragments }

Builds == { "debug", "release" }

\* ------------------------------------------------------------------- state

VARIABLES
    msg,      \* the caller's buffer
    build,    \* whether the build checks integer overflow (debug) or wraps (release)
    pc,       \* "idle", "scan" (inside parse_message), "done"
    op,       \* the operation that was called
    chunks,   \* parse_message's chunks, later sorted in place by do_sort
    offset,   \* parse_message's cursor
    result,   \* what the operation returned
    fed       \* how many times a sort's output became the buffer

vars == <<msg, build, pc, op, chunks, offset, result, fed>>

NoResult == [kind |-> "none", bytes |-> <<>>, flag |-> FALSE]

\* Err(ParseError)
ErrResult == [kind |-> "err", bytes |-> <<>>, flag |-> FALSE]

\* The operation did not return: an overflow check or a slice check aborted it.
PanicResult == [kind |-> "panic", bytes |-> <<>>, flag |-> FALSE]

Init ==
    /\ msg \in Buffers(MaxFrags)
    /\ build \in Builds
    /\ pc = "idle"
    /\ op = "none"
    /\ chunks = <<>>
    /\ offset = 0
    /\ result = NoResult
    /\ fed = 0

\* ----------------------------------------------------------------- actions

Enter(o) ==
    /\ pc = "idle"
    /\ pc' = "scan"
    /\ op' = o
    /\ chunks' = <<>>
    /\ offset' = 0
    /\ result' = NoResult
    /\ UNCHANGED <<msg, build, fed>>

is_protobuf_message_sorted == Enter("is_sorted")

sort_protobuf_message == Enter("sort")

sort_protobuf_message_inplace == Enter("inplace")

\* ScanStep as a scanner that skips what it cannot parse would do it: on
\* ParseError the byte at the cursor is passed over and the scan goes on.
ScanStepSkipping ==
    /\ pc = "scan"
    /\ offset < Len(msg)
    /\ Len(chunks) <= Len(msg)
    /\ LET f == scan_field(msg, offset, build)
       IN  IF f.kind = "chunk"
           THEN /\ chunks' = Append(chunks, f.chunk)
                /\ offset' = f.offset
                /\ UNCHANGED <<pc, result>>
           ELSE IF f.kind = "err"
           THEN /\ offset' = offset + 1
                /\ UNCHANGED <<pc, result, chunks>>
           ELSE /\ pc' = "done"
                /\ result' = PanicResult
                /\ chunks' = <<>>
                /\ UNCHANGED offset
    /\ UNCHANGED <<msg, build, op, fed>>

\* One iteration of the scan loop: it pushes a chunk and moves the cursor, or
\* returns Err(ParseError), which `?` hands to the caller (the chunks are
\* dropped), or aborts.  A loop that has already pushed more chunks than the
\* buffer has bytes is not followed further.
ScanStep ==
    /\ pc = "scan"
    /\ offset < Len(msg)
    /\ Len(chunks) <= Len(msg)
    /\ LET f == scan_field(msg, offset, build)
       IN  IF f.kind = "chunk"
           THEN /\ chunks' = Append(chunks, f.chunk)
                /\ offset' = f.offset
                /\ UNCHANGED <<pc, result>>
           ELSE /\ pc' = "done"
                /\ result' = IF f.kind = "err" THEN ErrResult ELSE PanicResult
                /\ chunks' = <<>>
                /\ UNCHANGED offset
    /\ UNCHANGED <<msg, build, op, fed>>

\* parse_message returned Ok(chunks) to is_protobuf_message_sorted.
ReturnIsSorted ==
    /\ pc = "scan"
    /\ offset = Len(msg)
    /\ op = "is_sorted"
    /\ pc' = "done"
    /\ result' = [kind |-> "bool", bytes |-> <<>>, flag |-> is_sorted(chunks)]
    /\ UNCHANGED <<msg, build, op, chunks, offset, fed>>

\* parse_message returned Ok(chunks) to sort_protobuf_message.
ReturnSort ==
    /\ pc = "scan"
    /\ offset = Len(msg)
    /\ op = "sort"
    /\ pc' = "done"
    /\ IF is_sorted(chunks)
       THEN /\ result' = [kind |-> "borrowed", bytes |-> msg, flag |-> FALSE]
            /\ chunks' = chunks
       ELSE LET s == do_sort(chunks, msg, build)
            IN  /\ chunks' = s.chunks
                /\ result' = IF s.panic THEN PanicResult
                             ELSE [kind |-> "owned", bytes |-> s.bytes, flag |-> FALSE]
    /\ UNCHANGED <<msg, build, op, offset, fed>>

\* parse_message returned Ok(chunks) to sort_protobuf_message_inplace;
\* copy_from_slice aborts when the two lengths differ.
ReturnInplace ==
    /\ pc = "scan"
    /\ offset = Len(msg)
    /\ op = "inplace"
    /\ pc' = "done"
    /\ IF is_sorted(chunks)
       THEN /\ result' = [kind |-> "unit", bytes |-> <<>>, flag |-> FALSE]
            /\ UNCHANGED <<chunks, msg>>
       ELSE LET s == do_sort(chunks, msg, build)
            IN  /\ chunks' = s.chunks
                /\ IF s.panic \/ Len(s.bytes) # Len(msg)
                   THEN /\ result' = PanicResult
                        /\ msg' = msg
                   ELSE /\ result' = [kind |-> "unit", bytes |-> <<>>, flag |-> FALSE]
                        /\ msg' = s.bytes
    /\ UNCHANGED <<build, op, offset, fed>>

\* The caller hands the output of a sort to a further call, as the tests do.
Feed ==
    /\ pc = "done"
    /\ op \in { "sort", "inplace" }
    /\ result.kind \in { "borrowed", "owned", "unit" }
    /\ fed < MaxFeeds
    /\ msg' = IF op = "sort" THEN result.bytes ELSE msg
    /\ fed' = fed + 1
    /\ pc' = "idle"
    /\ op' = "none"
    /\ chunks' = <<>>
    /\ offset' = 0
    /\ result' = NoResult
    /\ UNCHANGED build

Next ==
    \/ is_protobuf_message_sorted
    \/ sort_protobuf_message
    \/ sort_protobuf_message_inplace
    \/ ScanStep
    \/ ReturnIsSorted
    \/ ReturnSort
    \/ ReturnInplace
    \/ Feed

Spec == Init /\ [][Next]_vars

\* ------------------------------------------------------------- properties

\* The field ids of a chunk sequence never decrease.
NonDecreasing(cks) ==
    \A i \in 1..(Len(cks) - 1) : ~BigLess(cks[i + 1].id, cks[i].id)

\* The bytes of a chunk's range [offset, offset + length), or a value that is
\* no byte sequence when the range does not lie inside the buffer.
RangeBytes(buf, ck) ==
    IF IsSmall(ck.length) /\ ck.offset + Small(ck.length) <= Len(buf)
    THEN SubSeq(buf, ck.offset + 1, ck.offset + Small(ck.length))
    ELSE <<"outside">>

RECURSIVE ConcatRanges(_, _)
ConcatRanges(buf, cks) ==
    IF cks = <<>> THEN <<>>
    ELSE RangeBytes(buf, Head(cks)) \o ConcatRanges(buf, Tail(cks))

\* after holds exactly the chunks of before, each once.
SameChunks(before, after) ==
    /\ Len(after) = Len(before)
    /\ \A i \in 1..Len(before) : \E j \in 1..Len(after) : after[j] = before[i]
    /\ \A i, j \in 1..Len(after) : after[i] = after[j] => i = j

\* The place of chunk ck in the sequence cks.
Place(cks, ck) == CHOOSE k \in 1..Len(cks) : cks[k] = ck

\* A step in which an operation returns after a scan that accepted the buffer.
Returns ==
    /\ pc = "scan"
    /\ pc' = "done"
    /\ offset = Len(msg)

ReturnsOutput == Returns /\ result'.kind \in { "borrowed", "owned", "unit" }

\* The field at the cursor is one of those parse_message reports: a wire type
\* other than 0, 1, 2, 5, a varint that would start on an empty slice, or a
\* declared size above usize::MAX.
Malformed(buf, at) ==
    LET bytes == SubSeq(buf, at + 1, Len(buf))
        k == read_varint(bytes)
        wire_type == Low3(k.data)
        rest == SubSeq(bytes, k.length + 1, Len(bytes))
    IN  \/ wire_type \in { 3, 4, 6, 7 }
        \/ wire_type \in { 0, 2 } /\ rest = <<>>
        \/ wire_type = 2 /\ rest # <<>> /\ ~Fits(read_varint(rest).data, UsizeBits)

\* The length the field at the cursor has by the wire format's rules, as a
\* mathematical sum.
ExpectedLength(buf, at) ==
    LET bytes == SubSeq(buf, at + 1, Len(buf))
        k == read_varint(bytes)
        wire_type == Low3(k.data)
        v == read_varint(SubSeq(bytes, k.length + 1, Len(bytes)))
        payload == CASE wire_type = 0 -> Big(v.length)
                     [] wire_type = 1 -> Big(8)
                     [] wire_type = 5 -> Big(4)
                     [] OTHER -> BigAdd(Big(v.length), v.data)
    IN  BigAdd(Big(k.length), payload)

\* C1: no operation aborts: each ends with a normal result or ParseError.
C1_NoAbort == result.kind # "panic"

\* C2: is_protobuf_message_sorted on the output of a sort returns Ok(true).
C2_OutputChecksSorted ==
    (pc = "done" /\ op = "is_sorted" /\ fed > 0)
        => result = [kind |-> "bool", bytes |-> <<>>, flag |-> TRUE]

\* C3: the output of a sort has the input's length and is the concatenation of
\* the input's chunk ranges, each chunk once, in the sorted chunk order.
C3_OutputIsChunkPermutation ==
    [][ReturnsOutput /\ op \in { "sort", "inplace" }
          => LET out == IF op = "sort" THEN result'.bytes ELSE msg'
             IN  /\ Len(out) = Len(msg)
                 /\ SameChunks(chunks, chunks')
                 /\ out = ConcatRanges(msg, chunks')]_vars

\* C4: in the sorted chunk order a chunk with a smaller id comes first, and
\* chunks with the same id keep the order they had in the input.
C4_StableAscending ==
    [][ReturnsOutput /\ op \in { "sort", "inplace" }
          => /\ SameChunks(chunks, chunks')
             /\ \A i, j \in 1..Len(chunks') :
                   i < j =>
                     /\ ~BigLess(chunks'[j].id, chunks'[i].id)
                     /\ chunks'[i].id = chunks'[j].id
                           => Place(chunks, chunks'[i]) < Place(chunks, chunks'[j])]_vars

\* A sort has reordered a message in which two chunks share a field id.
C4_Witness ==
    /\ pc = "done"
    /\ result.kind = "owned"
    /\ \E i, j \in 1..Len(chunks) : i < j /\ chunks[i].id = chunks[j].id

\* C5: on an accepted message whose ids never decrease, sort_protobuf_message
\* returns the borrowed buffer with the input's bytes and
\* sort_protobuf_message_inplace leaves the buffer as it is; this covers a
\* sort applied to the already sorted output of a sort.
C5_SortedInputUntouched ==
    [][Returns /\ NonDecreasing(chunks)
          => /\ op = "sort"
                  => result' = [kind |-> "borrowed", bytes |-> msg, flag |-> FALSE]
             /\ op = "inplace" => result'.kind = "unit"
             /\ msg' = msg
             /\ chunks' = chunks]_vars

\* A sort has run on the output of an earlier sort, found its fields (two or
\* more) in order and returned.
C5_Witness ==
    /\ pc = "done"
    /\ fed > 0
    /\ op \in { "sort", "inplace" }
    /\ result.kind \in { "borrowed", "unit" }
    /\ Len(chunks) >= 2

\* C6: is_protobuf_message_sorted returns true exactly when the ids of the
\* chunks in encounter order never decrease; true for the empty buffer and
\* for a single field.
C6_CheckIsNonDecreasing ==
    (pc = "done" /\ op = "is_sorted" /\ result.kind \notin { "err", "panic" })
        => /\ result.kind = "bool"
           /\ result.flag = NonDecreasing(chunks)
           /\ Len(chunks) <= 1 => result.flag

\* The check has answered false for a message whose first two fields are in
\* order and whose third is not.
C6_Witness ==
    /\ pc = "done"
    /\ op = "is_sorted"
    /\ result.kind = "bool"
    /\ ~result.flag
    /\ Len(chunks) >= 3
    /\ BigLess(chunks[1].id, chunks[2].id)

\* C7: when the scan meets a field parse_message reports, at any position,
\* the operation returns ParseError at once with no output and no chunks,
\* and the caller's buffer is as it was when the operation was called.
C7_FailureIsTotal ==
    [][/\ (pc = "scan" /\ offset < Len(msg) /\ Len(chunks) <= Len(msg)
              /\ Malformed(msg, offset))
          => (pc' = "done" /\ result' = ErrResult /\ chunks' = <<>>)
       /\ (pc = "idle" \/ (pc = "scan" /\ offset < Len(msg))) => msg' = msg
       /\ result'.kind = "err" => (result'.bytes = <<>> /\ msg' = msg)]_vars

\* sort_protobuf_message_inplace has failed on a group start that follows two
\* accepted fields in the wrong order.
C7_Witness ==
    /\ pc = "done"
    /\ op = "inplace"
    /\ result = ErrResult
    /\ msg = <<26, 1, 42, 8, 10, 11>>

\* C8: a pushed chunk has id key >> 3 and length key bytes + payload length by
\* wire type; the fields parse_message reports give ParseError.
C8_ChunkOfField ==
    [][(pc = "scan" /\ offset < Len(msg) /\ Len(chunks) <= Len(msg))
          => /\ Malformed(msg, offset) => result' = ErrResult
             /\ Len(chunks') = Len(chunks) + 1
                   => LET ck == chunks'[Len(chunks')]
                          key == read_varint(SubSeq(msg, offset + 1, Len(msg))).data
                      IN  /\ ck.id = Shr3(key)
                          /\ ck.offset = offset
                          /\ ck.length = ExpectedLength(msg, offset)]_vars

\* C9: the chunks parse_message returns partition the buffer.
C9_ChunksPartitionBuffer ==
    (pc = "scan" /\ offset = Len(msg))
        => /\ chunks # <<>> => chunks[1].offset = 0
           /\ \A i \in 1..Len(chunks) :
                 /\ IsSmall(chunks[i].length)
                 /\ Small(chunks[i].length) >= 1
                 /\ chunks[i].offset + Small(chunks[i].length)
                       = IF i < Len(chunks) THEN chunks[i + 1].offset ELSE Len(msg)

\* C10: every iteration that pushes a chunk moves the cursor forward by at
\* least one byte, so there are never more chunks than bytes.
C10_ScanAdvances ==
    /\ Len(chunks) <= Len(msg)
    /\ pc = "scan" => \A i \in 1..Len(chunks) :
                         /\ chunks[i].length # <<>>
                         /\ chunks[i].offset < offset

====
